---- MODULE Spec2Model ----
(***************************************************************************)
(* Model of the S2S forecast auto-submit driver (S2S3_Submit.py) and of    *)
(* the readiness probe it polls (s2s_check.py).                            *)
(*                                                                         *)
(* Texts (command-line arguments, the scheduler's stdout and stderr, the   *)
(* notification subject and body) are sequences of strings: a literal of   *)
(* the source is one element, a text that the code parses or trims is      *)
(* given character by character.  Concatenation is \o.                     *)
(***************************************************************************)
EXTENDS Integers, Sequences, FiniteSets, TLC

VARIABLES
    fs,            \* the set of paths that exist on the file system (shared)
    fs0,           \* fs as it was when the runs started (history)
    argv,          \* argv[r]: sys.argv of run r
    pc,            \* pc[r]: position of run r in __main__ / run()
    validated,     \* validated[r]: result of validate_experiment ("none" before)
    eligible,      \* eligible[r]: result of check_forecast_date ("none","yes","no","raise")
    now,           \* now[r]: time.time() as run r reads it, in seconds
    start_time,    \* start_time[r]: wait_for_files' start_time
    probe,         \* probe[r]: outcome of the latest subprocess.run of the check script
    probe_class,   \* probe_class[r]: how wait_for_files logged the latest attempt
    seen,          \* seen[r]: the classes of all attempts so far (history)
    nProbes,       \* nProbes[r]: probe invocations so far (history)
    nSleeps,       \* nSleeps[r]: time.sleep(check_interval) calls so far (history)
    wait_result,   \* wait_result[r]: what wait_for_files returned ("none","true","false")
    sbatch,        \* sbatch[r]: outcome of the /usr/bin/sbatch invocation
    nSbatch,       \* nSbatch[r]: scheduler invocations so far (history)
    nUnlinks,      \* nUnlinks[r]: unlink calls on the marker file so far (history)
    late_unlink,   \* late_unlink[r]: r's unlink came after another run's job was accepted (history)
    submit_result, \* submit_result[r]: what submit_job returned
    pending,       \* pending[r]: arguments of the send_notification call about to run
    sent,          \* sent[r]: the notifications sent, in order
    notify_err,    \* notify_err[r]: TRUE when the delivery step raised (and was logged)
    ret,           \* ret[r]: the value run() is about to return
    run_ret,       \* run_ret[r]: << >> or <<value returned by run()>>
    exit_code,     \* exit_code[r]: << >> or <<process exit status>>
    gate_in,       \* input of the calendar-gate check (SpecGate)
    gate_out       \* << >> or <<result of check_forecast_date(gate_in)>> (SpecGate)

vars == <<fs, fs0, argv, pc, validated, eligible, now, start_time, probe,
          probe_class, seen, nProbes, nSleeps, wait_result, sbatch, nSbatch,
          nUnlinks, late_unlink, submit_result, pending, sent, notify_err, ret, run_ret,
          exit_code, gate_in, gate_out>>

Runs == {1, 2}

-----------------------------------------------------------------------------
(* Texts *)

Whitespace == {" ", "\n", "\t", "\r"}

\* str.strip(): leading and trailing whitespace characters removed
RECURSIVE lstrip(_)
lstrip(s) ==
    IF s # << >> /\ Head(s) \in Whitespace THEN lstrip(Tail(s)) ELSE s

RECURSIVE rstrip(_)
rstrip(s) ==
    IF s # << >> /\ s[Len(s)] \in Whitespace
    THEN rstrip(SubSeq(s, 1, Len(s) - 1)) ELSE s

strip(s) == rstrip(lstrip(s))

\* the text t occurs in the text s
Contains(s, t) ==
    \E i \in 1..(Len(s) - Len(t) + 1) : SubSeq(s, i, i + Len(t) - 1) = t

-----------------------------------------------------------------------------
(* Dates: datetime.strptime(s, '%Y-%m-%d') and datetime subtraction *)

DigitValue ==
    [c \in {"0", "1", "2", "3", "4", "5", "6", "7", "8", "9"} |->
        CASE c = "0" -> 0 [] c = "1" -> 1 [] c = "2" -> 2 [] c = "3" -> 3
          [] c = "4" -> 4 [] c = "5" -> 5 [] c = "6" -> 6 [] c = "7" -> 7
          [] c = "8" -> 8 [] c = "9" -> 9]

IsDigit(c) == c \in DOMAIN DigitValue

RECURSIVE NumValue(_)
NumValue(s) ==
    IF s = << >> THEN 0
    ELSE 10 * NumValue(SubSeq(s, 1, Len(s) - 1)) + DigitValue[s[Len(s)]]

\* %Y: exactly four digits
MatchesY(s) == Len(s) = 4 /\ \A i \in 1..4 : IsDigit(s[i])

\* %m: 1[0-2] | 0[1-9] | [1-9]
MatchesM(s) ==
    \/ Len(s) = 2 /\ s[1] = "1" /\ s[2] \in {"0", "1", "2"}
    \/ Len(s) = 2 /\ s[1] = "0" /\ IsDigit(s[2]) /\ s[2] # "0"
    \/ Len(s) = 1 /\ IsDigit(s[1]) /\ s[1] # "0"

\* %d: 3[01] | [12]\d | 0[1-9] | [1-9] | " "[1-9]
MatchesD(s) ==
    \/ Len(s) = 2 /\ s[1] = "3" /\ s[2] \in {"0", "1"}
    \/ Len(s) = 2 /\ s[1] \in {"1", "2"} /\ IsDigit(s[2])
    \/ Len(s) = 2 /\ s[1] \in {"0", " "} /\ IsDigit(s[2]) /\ s[2] # "0"
    \/ Len(s) = 1 /\ IsDigit(s[1]) /\ s[1] # "0"

is_leap(y) == y % 4 = 0 /\ (y % 100 # 0 \/ y % 400 = 0)

DaysInMonthTable == <<31, 28, 31, 30, 31, 30, 31, 31, 30, 31, 30, 31>>

days_in_month(y, m) ==
    IF m = 2 /\ is_leap(y) THEN 29 ELSE DaysInMonthTable[m]

RECURSIVE days_before_month(_, _)
days_before_month(y, m) ==
    IF m = 1 THEN 0 ELSE days_before_month(y, m - 1) + days_in_month(y, m - 1)

days_before_year(y) ==
    (y - 1) * 365 + ((y - 1) \div 4) - ((y - 1) \div 100) + ((y - 1) \div 400)

\* date.toordinal(): day 1 is 0001-01-01
toordinal(y, m, d) == days_before_year(y) + days_before_month(y, m) + d

ValueError == [ok |-> FALSE, year |-> 0, month |-> 0, day |-> 0]

\* datetime.strptime(s, '%Y-%m-%d'): the three fields, or ValueError when
\* the text does not match the format or names no calendar day.
strptime(s) ==
    LET dashes == {i \in 1..Len(s) : s[i] = "-"}
    IN  IF Cardinality(dashes) # 2 THEN ValueError
        ELSE
          LET i1 == CHOOSE i \in dashes : \A j \in dashes : i <= j
              i2 == CHOOSE i \in dashes : \A j \in dashes : j <= i
              ys == SubSeq(s, 1, i1 - 1)
              ms == SubSeq(s, i1 + 1, i2 - 1)
              ds == SubSeq(s, i2 + 1, Len(s))
          IN  IF ~(MatchesY(ys) /\ MatchesM(ms) /\ MatchesD(ds)) THEN ValueError
              ELSE
                LET y == NumValue(ys)
                    m == NumValue(ms)
                    d == NumValue(IF ds[1] = " " THEN Tail(ds) ELSE ds)
                IN  IF y < 1 \/ d > days_in_month(y, m) THEN ValueError
                    ELSE [ok |-> TRUE, year |-> y, month |-> m, day |-> d]

-----------------------------------------------------------------------------
(* Configuration: S2SForecastRunner.__init__ *)

check_interval == 900

max_wait_time == 7200

\* timeout=300 of subprocess.run in wait_for_files
probe_timeout == 300

\* the 5 of "days_since_jan_1 % 5"
cycle_days == 5

base_path == "/home/gmaofcst/geos-s2s-3"

script_dir == "/home/gmaofcst/ODAS/OBS/V3/D_BOSS/"

experiment_dir(name) == <<base_path, name>>

forecast_dates_file == <<script_dir, "forecast_dates.txt">>

check_script == <<script_dir, "s2s_check.py">>

job_script(name) == <<base_path, name, "gcm_run.j">>

\* self.experiment_dir / "ODAS_Check.txt", the stale marker file
marker_file(name) == <<base_path, name, "ODAS_Check.txt">>

email_list == <<"wesley.j.davis@nasa.gov">>

-----------------------------------------------------------------------------
(* validate_experiment *)

\* mutant: the job script left out of the required files
validate_experiment_no_job_script(files, name) ==
    IF experiment_dir(name) \notin files THEN FALSE
    ELSE LET required_files == {forecast_dates_file, check_script}
             missing_files == {f \in required_files : f \notin files}
         IN  missing_files = {}

validate_experiment(files, name) ==
    IF experiment_dir(name) \notin files THEN FALSE
    ELSE LET required_files == {forecast_dates_file, check_script, job_script(name)}
             missing_files == {f \in required_files : f \notin files}
         IN  missing_files = {}

-----------------------------------------------------------------------------
(* check_forecast_date *)

\* mutant: the day of the year, which is 1 on Jan 1, taken for the offset
day_of_year(dt) ==
    toordinal(dt.year, dt.month, dt.day) - toordinal(dt.year, 1, 1) + 1

\* mutant: the cycle counted from a fixed epoch instead of Jan 1 of the year
days_since_epoch(dt) ==
    toordinal(dt.year, dt.month, dt.day) - toordinal(1, 1, 1)

\* (forecast_date - jan_1).days
days_since_jan_1(dt) ==
    toordinal(dt.year, dt.month, dt.day) - toordinal(dt.year, 1, 1)

\* raised: strptime raised ValueError; value: the returned boolean otherwise
check_forecast_date(input_date) ==
    LET forecast_date == strptime(input_date)
    IN  IF ~forecast_date.ok THEN [raised |-> TRUE, value |-> FALSE]
        ELSE [raised |-> FALSE,
              value  |-> days_since_jan_1(forecast_date) % cycle_days = 0]

-----------------------------------------------------------------------------
(* s2s_check.py: the readiness probe *)

\* mutant: the second source counted with the first one's code
s2s_check_main_same_code(CMAP_found, anaeta_found, OSTIA_found) ==
    LET rc1 == IF CMAP_found THEN 0 ELSE 1
        rc2 == rc1 + (IF anaeta_found THEN 0 ELSE 1)
        rccode == rc2 + (IF OSTIA_found THEN 0 ELSE 100)
    IN  IF CMAP_found /\ anaeta_found /\ OSTIA_found THEN 0 ELSE rccode

\* main(): rccode from the three existence checks, then sys.exit
s2s_check_main(CMAP_found, anaeta_found, OSTIA_found) ==
    LET rc1 == IF CMAP_found THEN 0 ELSE 1
        rc2 == rc1 + (IF anaeta_found THEN 0 ELSE 10)
        rccode == rc2 + (IF OSTIA_found THEN 0 ELSE 100)
    IN  IF CMAP_found /\ anaeta_found /\ OSTIA_found THEN 0 ELSE rccode

\* seconds a probe process that exits by itself may take (below the timeout)
ProbeDurations == {0, 299}

\* What subprocess.run(check_cmd, ..., timeout=300) can produce:
\*   exit     the probe ran main() to its sys.exit
\*   exit, crashed  the probe died of an uncaught exception (open() of the
\*            status log failing, say): the interpreter exits with status 1
\*   timeout  subprocess.TimeoutExpired after probe_timeout seconds
\*   oserror  the process could not be started (OSError from Popen)
\* found: what the three existence checks of main() found (CMAP file,
\* ana.eta file, OSTIA record), for a probe that ran main() to its end
NothingFound == <<FALSE, FALSE, FALSE>>

ProbeOutcomes ==
    {[kind |-> "exit", rc |-> s2s_check_main(a, b, c), crashed |-> FALSE,
      found |-> <<a, b, c>>, dur |-> d] :
        a \in BOOLEAN, b \in BOOLEAN, c \in BOOLEAN, d \in ProbeDurations}
    \cup {[kind |-> "exit", rc |-> 1, crashed |-> TRUE, found |-> NothingFound,
           dur |-> d] : d \in ProbeDurations}
    \cup {[kind |-> "timeout", rc |-> -1, crashed |-> FALSE, found |-> NothingFound,
           dur |-> probe_timeout]}
    \cup {[kind |-> "oserror", rc |-> -1, crashed |-> FALSE, found |-> NothingFound,
           dur |-> 0]}

NoProbe == [kind |-> "none", rc |-> -1, crashed |-> FALSE, found |-> NothingFound]

\* mutant: the return code of the probe is not looked at
wait_classify_any_exit(o) ==
    CASE o.kind = "exit"    -> "ready"
      [] o.kind = "timeout" -> "timed_out"
      [] OTHER              -> "error"

\* wait_for_files, the body of its try statement: which branch handles the
\* outcome, named by what that branch logs
wait_classify(o) ==
    CASE o.kind = "exit" /\ o.rc = 0 -> "ready"        \* "All required files are available"
      [] o.kind = "exit" /\ o.rc # 0 -> "not_ready"    \* "Files not ready yet, waiting ..."
      [] o.kind = "timeout"          -> "timed_out"    \* "File check script timed out"
      [] OTHER                       -> "error"        \* "Error running file check: ..."

\* mutant: the coming sleep counted against the deadline
wait_loop_cond_early(t, t0) == t - t0 + check_interval < max_wait_time

\* mutant: the deadline compared with <=
wait_loop_cond_inclusive(t, t0) == t - t0 <= max_wait_time

\* while time.time() - start_time < self.max_wait_time
wait_loop_cond(t, t0) == t - t0 < max_wait_time

-----------------------------------------------------------------------------
(* submit_job *)

None == << >>

Some(x) == <<x>>

\* Python truth value of an optional text: None and "" are false
Truthy(opt) == opt # None /\ opt[1] # << >>

Stdouts ==
    { <<"1", "2", "3", "4", "5", "6", "\n">>,
      <<" ", "\t", "4", " ", "2", "\r", "\n">>,
      <<"Submitted batch job ", "7", "\n">>,
      <<"\n">>,
      << >> }

Stderrs ==
    { <<"QOS limit exceeded">>,
      <<"sbatch: error: ", "Batch job submission failed", "\n">> }

\* What subprocess.run(["/usr/bin/sbatch", job_script], ...) can produce:
\* the command's exit status with its stdout and stderr, or an exception
\* (text: str(e)) when the command cannot be started.
SbatchOutcomes ==
    {[kind |-> "exit", rc |-> 0, stdout |-> o, text |-> << >>] : o \in Stdouts}
    \cup {[kind |-> "exit", rc |-> 1, stdout |-> << >>, text |-> e] : e \in Stderrs}
    \cup {[kind |-> "raise", rc |-> -1, stdout |-> << >>,
           text |-> <<"[Errno 2] No such file or directory: ", "/usr/bin/sbatch">>]}

NoSbatch == [kind |-> "none", rc |-> -1, stdout |-> << >>, text |-> << >>]

\* mutant: the scheduler's stdout taken as it is
submit_job_result_nostrip(o) ==
    IF o.kind = "exit" /\ o.rc = 0
    THEN [success |-> TRUE, job_id |-> Some(o.stdout)]
    ELSE [success |-> FALSE, job_id |-> None]

\* submit_job after the subprocess call: the (success, job_id) it returns
submit_job_result(o) ==
    IF o.kind = "exit" /\ o.rc = 0
    THEN [success |-> TRUE, job_id |-> Some(strip(o.stdout))]
    ELSE [success |-> FALSE, job_id |-> None]

NoSubmit == [success |-> FALSE, job_id |-> None]

-----------------------------------------------------------------------------
(* send_notification *)

send_notification(name, success, message, job_id) ==
    IF success
    THEN [success |-> TRUE,
          subject |-> <<"V2 ODAS Run Submitted - ", name>>,
          body    |-> <<"V2 ODAS Run Submitted for experiment: ", name>>
                      \o (IF Truthy(job_id) THEN <<"\nJob ID: ">> \o job_id[1]
                          ELSE << >>),
          to      |-> email_list]
    ELSE [success |-> FALSE,
          subject |-> <<"V2 ODAS Run Failed - ", name>>,
          body    |-> <<"V2 ODAS Run Failed for experiment: ", name, "\nError: ">>
                      \o message,
          to      |-> email_list]

\* the message arguments of run()'s three failure notifications
msg_validation == <<"Experiment validation failed">>

msg_timeout == <<"Timeout waiting for input files">>

msg_submission == <<"Job submission failed">>

\* the values run() returns
ret_validation_failed == 1

ret_submit_failed == 1

ret_success == 0

\* mutant: a skipped date reported as a failure
ret_not_eligible_as_failure == ret_submit_failed

ret_not_eligible == 0

\* mutant: a readiness timeout reported as success
ret_timeout_as_success == ret_success

ret_timeout == 1

\* sys.exit(1) after the usage message
usage_exit == 1

-----------------------------------------------------------------------------
(* The inputs *)

ExperimentNames == {"S2S-2_1_ANA_002", "NoSuchExp"}

\* the experiment whose directory may exist
TheExperiment == "S2S-2_1_ANA_002"

DateArgs ==
    { <<"2", "0", "2", "4", "-", "0", "1", "-", "0", "1">>,   \* Jan 1: offset 0
      <<"2", "0", "2", "4", "-", "0", "1", "-", "0", "2">>,   \* offset 1
      <<"2", "0", "2", "4", "-", "3", "-", "1">>,             \* leap year, offset 60
      <<"2", "0", "2", "3", "-", "1", "2", "-", "3", "1">>,   \* offset 364
      <<"2", "0", "2", "4", "-", "1", "3", "-", "0", "1">>,   \* no month 13
      <<"2", "0", "2", "3", "-", "0", "2", "-", "2", "9">>,   \* no Feb 29 in 2023
      <<"t", "o", "d", "a", "y">> }

ArgvChoices ==
    {<<"S2S3_Submit.py", n, d>> : n \in ExperimentNames, d \in DateArgs}
    \cup {<<"S2S3_Submit.py", TheExperiment>>}

\* the file systems a run can start in: a file of the experiment directory
\* exists only if the directory does
FsChoices ==
    {f \in SUBSET {forecast_dates_file, check_script, experiment_dir(TheExperiment),
                   job_script(TheExperiment), marker_file(TheExperiment)} :
        (job_script(TheExperiment) \in f \/ marker_file(TheExperiment) \in f)
            => experiment_dir(TheExperiment) \in f}

experiment_name(r) == argv[r][2]

forecast_date(r) == argv[r][3]

-----------------------------------------------------------------------------
(* The state after start-up: the runs in Started are about to execute       *)
(* __main__, the others are never launched.                                 *)

InitWith(Started) ==
    /\ fs \in FsChoices
    /\ fs0 = fs
    /\ argv \in [Runs -> ArgvChoices]
    /\ \A r \in Runs \ Started : argv[r] = <<"S2S3_Submit.py", TheExperiment>>
    /\ pc = [r \in Runs |-> IF r \in Started THEN "main" ELSE "off"]
    /\ validated = [r \in Runs |-> "none"]
    /\ eligible = [r \in Runs |-> "none"]
    /\ now = [r \in Runs |-> 0]
    /\ start_time = [r \in Runs |-> 0]
    /\ probe = [r \in Runs |-> NoProbe]
    /\ probe_class = [r \in Runs |-> "none"]
    /\ seen = [r \in Runs |-> {}]
    /\ nProbes = [r \in Runs |-> 0]
    /\ nSleeps = [r \in Runs |-> 0]
    /\ wait_result = [r \in Runs |-> "none"]
    /\ sbatch = [r \in Runs |-> NoSbatch]
    /\ nSbatch = [r \in Runs |-> 0]
    /\ nUnlinks = [r \in Runs |-> 0]
    /\ late_unlink = [r \in Runs |-> FALSE]
    /\ submit_result = [r \in Runs |-> NoSubmit]
    /\ pending = [r \in Runs |-> << >>]
    /\ sent = [r \in Runs |-> << >>]
    /\ notify_err = [r \in Runs |-> FALSE]
    /\ ret = [r \in Runs |-> << >>]
    /\ run_ret = [r \in Runs |-> << >>]
    /\ exit_code = [r \in Runs |-> << >>]

NoGate == [year |-> 0, month |-> 0, day |-> 0, text |-> << >>]

Init ==
    /\ InitWith({1})
    /\ gate_in = NoGate
    /\ gate_out = << >>

gate_vars == <<gate_in, gate_out>>

wait_vars == <<now, start_time, probe, probe_class, seen, nProbes, nSleeps, wait_result>>

submit_vars == <<sbatch, nSbatch, nUnlinks, late_unlink, submit_result>>

notify_vars == <<pending, sent, notify_err>>

-----------------------------------------------------------------------------
(* __main__ *)

\* the argument count check, then S2SForecastRunner(experiment_name)
main(r) ==
    /\ pc[r] = "main"
    /\ IF Len(argv[r]) # 3
       THEN /\ exit_code' = [exit_code EXCEPT ![r] = <<usage_exit>>]
            /\ pc' = [pc EXCEPT ![r] = "exited"]
       ELSE /\ pc' = [pc EXCEPT ![r] = "validate"]
            /\ UNCHANGED exit_code
    /\ UNCHANGED <<fs, fs0, argv, validated, eligible, ret, run_ret>>
    /\ UNCHANGED <<wait_vars, submit_vars, notify_vars, gate_vars>>

\* sys.exit(exit_code) with the value run() returned
main_exit(r) ==
    /\ pc[r] = "returned"
    /\ exit_code' = [exit_code EXCEPT ![r] = run_ret[r]]
    /\ pc' = [pc EXCEPT ![r] = "exited"]
    /\ UNCHANGED <<fs, fs0, argv, validated, eligible, ret, run_ret>>
    /\ UNCHANGED <<wait_vars, submit_vars, notify_vars, gate_vars>>

-----------------------------------------------------------------------------
(* run *)

\* run(): "if not self.validate_experiment()"
run_validate(r) ==
    /\ pc[r] = "validate"
    /\ IF validate_experiment(fs, experiment_name(r))
       THEN /\ validated' = [validated EXCEPT ![r] = "pass"]
            /\ pc' = [pc EXCEPT ![r] = "check_date"]
            /\ UNCHANGED <<pending, ret>>
       ELSE /\ validated' = [validated EXCEPT ![r] = "fail"]
            /\ pending' = [pending EXCEPT ![r] =
                              <<[success |-> FALSE, message |-> msg_validation,
                                 job_id |-> None]>>]
            /\ ret' = [ret EXCEPT ![r] = <<ret_validation_failed>>]
            /\ pc' = [pc EXCEPT ![r] = "notify"]
    /\ UNCHANGED <<fs, fs0, argv, eligible, run_ret, exit_code, sent, notify_err>>
    /\ UNCHANGED <<wait_vars, submit_vars, gate_vars>>

\* run(): "if not self.check_forecast_date(forecast_date)".  A ValueError of
\* strptime is caught nowhere: it leaves run() and __main__, and the
\* interpreter ends the process with a traceback and status 1.
run_check_date(r) ==
    /\ pc[r] = "check_date"
    /\ LET e == check_forecast_date(forecast_date(r))
       IN  IF e.raised
           THEN /\ eligible' = [eligible EXCEPT ![r] = "raise"]
                /\ pc' = [pc EXCEPT ![r] = "crashed"]
                /\ exit_code' = [exit_code EXCEPT ![r] = <<1>>]
                /\ UNCHANGED ret
           ELSE IF ~e.value
           THEN /\ eligible' = [eligible EXCEPT ![r] = "no"]
                /\ ret' = [ret EXCEPT ![r] = <<ret_not_eligible>>]
                /\ pc' = [pc EXCEPT ![r] = "return"]
                /\ UNCHANGED exit_code
           ELSE /\ eligible' = [eligible EXCEPT ![r] = "yes"]
                /\ pc' = [pc EXCEPT ![r] = "wait_start"]
                /\ UNCHANGED <<ret, exit_code>>
    /\ UNCHANGED <<fs, fs0, argv, validated, run_ret>>
    /\ UNCHANGED <<wait_vars, submit_vars, notify_vars, gate_vars>>

\* mutant: a failed delivery turned into a failure of the run
run_notify_propagates(r) ==
    /\ pc[r] = "notify"
    /\ \E raised \in BOOLEAN :
          /\ sent' = [sent EXCEPT ![r] =
                Append(@, send_notification(experiment_name(r), pending[r][1].success,
                                            pending[r][1].message, pending[r][1].job_id))]
          /\ notify_err' = [notify_err EXCEPT ![r] = raised]
          /\ ret' = [ret EXCEPT ![r] = IF raised THEN <<ret_submit_failed>> ELSE @]
    /\ pending' = [pending EXCEPT ![r] = << >>]
    /\ pc' = [pc EXCEPT ![r] = "return"]
    /\ UNCHANGED <<fs, fs0, argv, validated, eligible, run_ret, exit_code>>
    /\ UNCHANGED <<wait_vars, submit_vars, gate_vars>>

\* the send_notification call run() makes before each return but the
\* not-eligible one; the delivery step (the try block) may raise, which is
\* caught and logged
run_notify(r) ==
    /\ pc[r] = "notify"
    /\ \E raised \in BOOLEAN :
          /\ sent' = [sent EXCEPT ![r] =
                Append(@, send_notification(experiment_name(r), pending[r][1].success,
                                            pending[r][1].message, pending[r][1].job_id))]
          /\ notify_err' = [notify_err EXCEPT ![r] = raised]
    /\ pending' = [pending EXCEPT ![r] = << >>]
    /\ pc' = [pc EXCEPT ![r] = "return"]
    /\ UNCHANGED <<fs, fs0, argv, validated, eligible, ret, run_ret, exit_code>>
    /\ UNCHANGED <<wait_vars, submit_vars, gate_vars>>

\* run()'s return statement
run_return(r) ==
    /\ pc[r] = "return"
    /\ run_ret' = [run_ret EXCEPT ![r] = ret[r]]
    /\ pc' = [pc EXCEPT ![r] = "returned"]
    /\ UNCHANGED <<fs, fs0, argv, validated, eligible, ret, exit_code>>
    /\ UNCHANGED <<wait_vars, submit_vars, notify_vars, gate_vars>>

-----------------------------------------------------------------------------
(* wait_for_files *)

\* run() calls wait_for_files: the date is parsed again for the probe's
\* arguments, then start_time = time.time()
wait_start(r) ==
    /\ pc[r] = "wait_start"
    /\ IF strptime(forecast_date(r)).ok
       THEN /\ start_time' = [start_time EXCEPT ![r] = now[r]]
            /\ pc' = [pc EXCEPT ![r] = "loop"]
            /\ UNCHANGED exit_code
       ELSE /\ pc' = [pc EXCEPT ![r] = "crashed"]
            /\ exit_code' = [exit_code EXCEPT ![r] = <<1>>]
            /\ UNCHANGED start_time
    /\ UNCHANGED <<fs, fs0, argv, validated, eligible, ret, run_ret>>
    /\ UNCHANGED <<now, probe, probe_class, seen, nProbes, nSleeps, wait_result>>
    /\ UNCHANGED <<submit_vars, notify_vars, gate_vars>>

\* mutant: the result of wait_for_files ignored by run()
wait_loop_submits_anyway(r) ==
    /\ pc[r] = "loop"
    /\ IF wait_loop_cond(now[r], start_time[r])
       THEN /\ pc' = [pc EXCEPT ![r] = "probe"]
            /\ UNCHANGED wait_result
       ELSE /\ wait_result' = [wait_result EXCEPT ![r] = "false"]
            /\ pc' = [pc EXCEPT ![r] = "unlink"]
    /\ UNCHANGED <<fs, fs0, argv, validated, eligible, ret, run_ret, exit_code>>
    /\ UNCHANGED <<now, start_time, probe, probe_class, seen, nProbes, nSleeps>>
    /\ UNCHANGED <<submit_vars, notify_vars, gate_vars>>

\* mutant: the timeout return of run() without its send_notification call
wait_loop_silent(r) ==
    /\ pc[r] = "loop"
    /\ IF wait_loop_cond(now[r], start_time[r])
       THEN /\ pc' = [pc EXCEPT ![r] = "probe"]
            /\ UNCHANGED <<wait_result, ret>>
       ELSE /\ wait_result' = [wait_result EXCEPT ![r] = "false"]
            /\ ret' = [ret EXCEPT ![r] = <<ret_timeout>>]
            /\ pc' = [pc EXCEPT ![r] = "return"]
    /\ UNCHANGED <<fs, fs0, argv, validated, eligible, run_ret, exit_code>>
    /\ UNCHANGED <<now, start_time, probe, probe_class, seen, nProbes, nSleeps>>
    /\ UNCHANGED <<submit_vars, notify_vars, gate_vars>>

\* the while condition; when it fails wait_for_files returns False and run()
\* goes on to the timeout notification
wait_loop(r) ==
    /\ pc[r] = "loop"
    /\ IF wait_loop_cond(now[r], start_time[r])
       THEN /\ pc' = [pc EXCEPT ![r] = "probe"]
            /\ UNCHANGED <<wait_result, pending, ret>>
       ELSE /\ wait_result' = [wait_result EXCEPT ![r] = "false"]
            /\ pending' = [pending EXCEPT ![r] =
                              <<[success |-> FALSE, message |-> msg_timeout,
                                 job_id |-> None]>>]
            /\ ret' = [ret EXCEPT ![r] = <<ret_timeout>>]
            /\ pc' = [pc EXCEPT ![r] = "notify"]
    /\ UNCHANGED <<fs, fs0, argv, validated, eligible, run_ret, exit_code>>
    /\ UNCHANGED <<now, start_time, probe, probe_class, seen, nProbes, nSleeps>>
    /\ UNCHANGED <<submit_vars, sent, notify_err, gate_vars>>

\* one subprocess.run of the check script and the branch that handles its
\* outcome: return True on status 0, otherwise go to the sleep
wait_probe_from(r, Outcomes) ==
    /\ pc[r] = "probe"
    /\ \E o \in Outcomes :
          /\ now' = [now EXCEPT ![r] = @ + o.dur]
          /\ probe' = [probe EXCEPT ![r] =
                          [kind |-> o.kind, rc |-> o.rc, crashed |-> o.crashed,
                           found |-> o.found]]
          /\ probe_class' = [probe_class EXCEPT ![r] = wait_classify(o)]
          /\ seen' = [seen EXCEPT ![r] = @ \cup {wait_classify(o)}]
          /\ IF wait_classify(o) = "ready"
             THEN /\ wait_result' = [wait_result EXCEPT ![r] = "true"]
                  /\ pc' = [pc EXCEPT ![r] = "unlink"]
             ELSE /\ pc' = [pc EXCEPT ![r] = "sleep"]
                  /\ UNCHANGED wait_result
    /\ nProbes' = [nProbes EXCEPT ![r] = @ + 1]
    /\ UNCHANGED <<fs, fs0, argv, validated, eligible, ret, run_ret, exit_code>>
    /\ UNCHANGED <<start_time, nSleeps>>
    /\ UNCHANGED <<submit_vars, notify_vars, gate_vars>>

wait_probe(r) == wait_probe_from(r, ProbeOutcomes)

\* mutant: the sleep between attempts as short as the probe's timeout
wait_sleep_short(r) ==
    /\ pc[r] = "sleep"
    /\ now' = [now EXCEPT ![r] = @ + probe_timeout]
    /\ nSleeps' = [nSleeps EXCEPT ![r] = @ + 1]
    /\ pc' = [pc EXCEPT ![r] = "loop"]
    /\ UNCHANGED <<fs, fs0, argv, validated, eligible, ret, run_ret, exit_code>>
    /\ UNCHANGED <<start_time, probe, probe_class, seen, nProbes, wait_result>>
    /\ UNCHANGED <<submit_vars, notify_vars, gate_vars>>

\* time.sleep(self.check_interval)
wait_sleep(r) ==
    /\ pc[r] = "sleep"
    /\ now' = [now EXCEPT ![r] = @ + check_interval]
    /\ nSleeps' = [nSleeps EXCEPT ![r] = @ + 1]
    /\ pc' = [pc EXCEPT ![r] = "loop"]
    /\ UNCHANGED <<fs, fs0, argv, validated, eligible, ret, run_ret, exit_code>>
    /\ UNCHANGED <<start_time, probe, probe_class, seen, nProbes, wait_result>>
    /\ UNCHANGED <<submit_vars, notify_vars, gate_vars>>

-----------------------------------------------------------------------------
(* submit_job *)

\* the pending failure notification and return value of run() after
\* submit_job returned (False, None)
submit_failed(r) ==
    /\ submit_result' = [submit_result EXCEPT ![r] = [success |-> FALSE, job_id |-> None]]
    /\ pending' = [pending EXCEPT ![r] =
                      <<[success |-> FALSE, message |-> msg_submission,
                         job_id |-> None]>>]
    /\ ret' = [ret EXCEPT ![r] = <<ret_submit_failed>>]
    /\ pc' = [pc EXCEPT ![r] = "notify"]

\* mutant: a lock around the submit phase, taken by the first run to get there
submit_unlink_locked(r) ==
    /\ pc[r] = "unlink"
    /\ \A q \in Runs \ {r} : nUnlinks[q] = 0
    /\ nUnlinks' = [nUnlinks EXCEPT ![r] = @ + 1]
    /\ late_unlink' = [late_unlink EXCEPT ![r] =
                          \E q \in Runs \ {r} : sbatch[q].kind = "exit" /\ sbatch[q].rc = 0]
    /\ \E raised \in BOOLEAN :
          IF raised
          THEN /\ submit_failed(r)
               /\ UNCHANGED fs
          ELSE /\ fs' = fs \ {<<base_path, experiment_name(r), "ODAS_Check.txt">>}
               /\ pc' = [pc EXCEPT ![r] = "sbatch"]
               /\ UNCHANGED <<submit_result, pending, ret>>
    /\ UNCHANGED <<fs0, argv, validated, eligible, run_ret, exit_code>>
    /\ UNCHANGED <<wait_vars, sbatch, nSbatch, sent, notify_err, gate_vars>>

\* mutant: the cleanup leaves the file where it is
unlink_noop(files, path) == files

\* Path.unlink(missing_ok=True) when it does not raise: the path is gone,
\* and it is no error if it was not there
unlink_missing_ok(files, path) == files \ {path}

\* (self.experiment_dir / "ODAS_Check.txt").unlink(missing_ok=True); an
\* OSError other than "no such file" goes to submit_job's except clause
submit_unlink(r) ==
    /\ pc[r] = "unlink"
    /\ nUnlinks' = [nUnlinks EXCEPT ![r] = @ + 1]
    /\ late_unlink' = [late_unlink EXCEPT ![r] =
                          \E q \in Runs \ {r} : sbatch[q].kind = "exit" /\ sbatch[q].rc = 0]
    /\ \E raised \in BOOLEAN :
          IF raised
          THEN /\ submit_failed(r)
               /\ UNCHANGED fs
          ELSE /\ fs' = unlink_missing_ok(fs, marker_file(experiment_name(r)))
               /\ pc' = [pc EXCEPT ![r] = "sbatch"]
               /\ UNCHANGED <<submit_result, pending, ret>>
    /\ UNCHANGED <<fs0, argv, validated, eligible, run_ret, exit_code>>
    /\ UNCHANGED <<wait_vars, sbatch, nSbatch, sent, notify_err, gate_vars>>

\* subprocess.run(["/usr/bin/sbatch", ...]) and what submit_job and run()
\* make of its outcome
submit_sbatch_from(r, Outcomes) ==
    /\ pc[r] = "sbatch"
    /\ nSbatch' = [nSbatch EXCEPT ![r] = @ + 1]
    /\ \E o \in Outcomes :
          /\ sbatch' = [sbatch EXCEPT ![r] = o]
          /\ IF submit_job_result(o).success
             THEN /\ submit_result' = [submit_result EXCEPT ![r] = submit_job_result(o)]
                  /\ pending' = [pending EXCEPT ![r] =
                                    <<[success |-> TRUE, message |-> << >>,
                                       job_id |-> submit_job_result(o).job_id]>>]
                  /\ ret' = [ret EXCEPT ![r] = <<ret_success>>]
                  /\ pc' = [pc EXCEPT ![r] = "notify"]
             ELSE submit_failed(r)
    /\ UNCHANGED <<fs, fs0, argv, validated, eligible, run_ret, exit_code>>
    /\ UNCHANGED <<wait_vars, nUnlinks, late_unlink, sent, notify_err, gate_vars>>

submit_sbatch(r) == submit_sbatch_from(r, SbatchOutcomes)

-----------------------------------------------------------------------------
(* The driver *)

Next ==
    \E r \in Runs :
        \/ main(r)
        \/ run_validate(r)
        \/ run_check_date(r)
        \/ wait_start(r)
        \/ wait_loop(r)
        \/ wait_probe(r)
        \/ wait_sleep(r)
        \/ submit_unlink(r)
        \/ submit_sbatch(r)
        \/ run_notify(r)
        \/ run_return(r)
        \/ main_exit(r)

Spec == Init /\ [][Next]_vars

-----------------------------------------------------------------------------
(* Two overlapping invocations for the same experiment and the same        *)
(* eligible date, on a file system that passes validation.  The probe      *)
(* answers at once, all sources found or none; the scheduler accepts the   *)
(* job or refuses it.                                                      *)

TwoRunArgv == <<"S2S3_Submit.py", TheExperiment,
                <<"2", "0", "2", "4", "-", "0", "1", "-", "0", "1">>>>

TwoRunProbeOutcomes ==
    {o \in ProbeOutcomes :
        o.kind = "exit" /\ ~o.crashed /\ o.dur = 0 /\ o.found \in {<<TRUE, TRUE, TRUE>>, NothingFound}}

TwoRunSbatchOutcomes ==
    {o \in SbatchOutcomes :
        \/ o.rc = 0 /\ o.stdout = <<"1", "2", "3", "4", "5", "6", "\n">>
        \/ o.rc = 1 /\ o.text = <<"QOS limit exceeded">>}

InitTwo ==
    /\ InitWith(Runs)
    /\ argv = [r \in Runs |-> TwoRunArgv]
    /\ validate_experiment(fs, TheExperiment)
    /\ gate_in = NoGate
    /\ gate_out = << >>

NextTwo ==
    \E r \in Runs :
        \/ main(r)
        \/ run_validate(r)
        \/ run_check_date(r)
        \/ wait_start(r)
        \/ wait_loop(r)
        \/ wait_probe_from(r, TwoRunProbeOutcomes)
        \/ wait_sleep(r)
        \/ submit_unlink(r)
        \/ submit_sbatch_from(r, TwoRunSbatchOutcomes)
        \/ run_notify(r)
        \/ run_return(r)
        \/ main_exit(r)

SpecTwo == InitTwo /\ [][NextTwo]_vars

-----------------------------------------------------------------------------
(* The calendar gate alone: check_forecast_date applied to every day of    *)
(* the years in GateYears, written as YYYY-MM-DD.                          *)

\* the years checked: two century years and GateFirstYear and the
\* GateYearSpan years after it
GateFirstYear == 2023

GateYearSpan == 1

GateYears == {1900, 2000} \cup (GateFirstYear .. (GateFirstYear + GateYearSpan))

DigitChar(n) == CHOOSE c \in DOMAIN DigitValue : DigitValue[c] = n

\* '%04d-%02d-%02d' % (y, m, d)
isoformat(y, m, d) ==
    <<DigitChar(y \div 1000), DigitChar((y \div 100) % 10),
      DigitChar((y \div 10) % 10), DigitChar(y % 10), "-",
      DigitChar(m \div 10), DigitChar(m % 10), "-",
      DigitChar(d \div 10), DigitChar(d % 10)>>

GateInputs ==
    {[year |-> y, month |-> m, day |-> d, text |-> isoformat(y, m, d)] :
        y \in GateYears, m \in 1..12, d \in 1..31}

GateInit ==
    /\ InitWith({})
    /\ fs = {}
    /\ gate_in \in {g \in GateInputs : g.day <= days_in_month(g.year, g.month)}
    /\ gate_out = << >>

gate_check ==
    /\ gate_out = << >>
    /\ gate_out' = <<check_forecast_date(gate_in.text)>>
    /\ UNCHANGED <<fs, fs0, argv, pc, validated, eligible, ret, run_ret, exit_code>>
    /\ UNCHANGED <<wait_vars, submit_vars, notify_vars, gate_in>>

GateNext == gate_check

SpecGate == GateInit /\ [][GateNext]_vars

-----------------------------------------------------------------------------
(* Properties *)

Returned(r) == run_ret[r] # << >>

SchedulerAccepted(r) == sbatch[r].kind = "exit" /\ sbatch[r].rc = 0

\* submit_job has returned a failure: the cleanup raised, or the scheduler
\* command exited nonzero or could not be started
SubmissionFailed(r) ==
    /\ nUnlinks[r] = 1
    /\ pc[r] \notin {"unlink", "sbatch"}
    /\ ~SchedulerAccepted(r)

\* C1: the value run() returns is 0 or 1; it is 0 exactly when validation
\* passed and either the date is not eligible or the poll loop reported
\* ready and the scheduler command exited 0; it is 1 after a validation
\* failure, a readiness timeout and a submission failure; and the process
\* exits with the value run() returned, so that the same holds of the
\* process exit status.
C1_ExitCodes ==
    \A r \in Runs :
        /\ Returned(r) =>
              /\ run_ret[r][1] \in {0, 1}
              /\ (run_ret[r][1] = 0) <=>
                    /\ validated[r] = "pass"
                    /\ \/ eligible[r] = "no"
                       \/ wait_result[r] = "true" /\ SchedulerAccepted(r)
              /\ validated[r] = "fail" => run_ret[r][1] = 1
              /\ wait_result[r] = "false" => run_ret[r][1] = 1
              /\ SubmissionFailed(r) => run_ret[r][1] = 1
        /\ (pc[r] = "exited" /\ Returned(r)) => exit_code[r] = run_ret[r]
        /\ exit_code[r] # << >> =>
              /\ exit_code[r][1] \in {0, 1}
              /\ (exit_code[r][1] = 0) <=>
                    /\ validated[r] = "pass"
                    /\ \/ eligible[r] = "no"
                       \/ wait_result[r] = "true" /\ SchedulerAccepted(r)

C1_Witness ==
    /\ exit_code[1] = <<0>>
    /\ wait_result[1] = "true"
    /\ SchedulerAccepted(1)
    /\ nProbes[1] > 1

\* C2: a run sends at most one notification; when run() returns after a
\* validation failure, a readiness timeout or a submission failure it has
\* sent exactly one, a failure notification, and returns 1; after an
\* accepted submission it has sent exactly one, a success notification;
\* after a not-eligible skip it has sent none.
C2_Notifications ==
    \A r \in Runs :
        /\ Len(sent[r]) <= 1
        /\ (pc[r] \in {"return", "returned", "exited"} /\ Len(argv[r]) = 3) =>
              /\ (validated[r] = "fail" \/ wait_result[r] = "false" \/ SubmissionFailed(r))
                    => /\ Len(sent[r]) = 1
                       /\ ~sent[r][1].success
                       /\ ret[r] = <<1>>
              /\ (wait_result[r] = "true" /\ SchedulerAccepted(r))
                    => /\ Len(sent[r]) = 1
                       /\ sent[r][1].success
              /\ eligible[r] = "no" => sent[r] = << >>

C2_Witness ==
    /\ exit_code[1] = <<1>>
    /\ wait_result[1] = "false"
    /\ Len(sent[1]) = 1
    /\ ~sent[1][1].success

\* C3 (as claimed): whatever the experiment name and the date argument, no
\* error escapes run() as an uncaught exception: a started run never ends
\* in the interpreter's traceback exit.
C3_NoUncaughtException ==
    \A r \in Runs : pc[r] # "crashed"

\* C4 (as claimed): when the scheduler command exits nonzero or cannot be
\* started, with diagnostic text S, run() returns 1 having sent one failure
\* notification whose body contains S.
C4_FailureCarriesDiagnostic ==
    \A r \in Runs :
        (Returned(r) /\ nSbatch[r] = 1 /\ ~SchedulerAccepted(r)) =>
            /\ run_ret[r] = <<1>>
            /\ Len(sent[r]) = 1
            /\ ~sent[r][1].success
            /\ Contains(sent[r][1].body, sbatch[r].text)

\* C5: for a validated experiment and a date that is not eligible, the run
\* returns and exits 0 with no notification, no probe invocation, no
\* scheduler invocation, no unlink, and the file system (the marker file
\* with it) as it was.
C5_NotEligibleNoEffect ==
    \A r \in Runs :
        eligible[r] = "no" =>
            /\ validated[r] = "pass"
            /\ pc[r] \in {"return", "returned", "exited"}
            /\ ret[r] = <<0>>
            /\ Returned(r) => run_ret[r] = <<0>>
            /\ pc[r] = "exited" => exit_code[r] = <<0>>
            /\ sent[r] = << >>
            /\ pending[r] = << >>
            /\ nProbes[r] = 0
            /\ nSbatch[r] = 0
            /\ nUnlinks[r] = 0
            /\ fs = fs0

C5_Witness ==
    /\ eligible[1] = "no"
    /\ exit_code[1] = <<0>>
    /\ marker_file(experiment_name(1)) \in fs

\* t is s with its surrounding whitespace removed
IsTrimOf(t, s) ==
    \E i \in 1..(Len(s) + 1) : \E j \in 0..Len(s) :
        /\ t = SubSeq(s, i, j)
        /\ \A k \in 1..(i - 1) : s[k] \in Whitespace
        /\ \A k \in (j + 1)..Len(s) : s[k] \in Whitespace
        /\ t # << >> => (t[1] \notin Whitespace /\ t[Len(t)] \notin Whitespace)

\* C6: once the scheduler command has run, submit_job reports success iff
\* the command exited 0, and then the job identifier is the command's
\* stdout with surrounding whitespace trimmed; when that identifier is not
\* empty and run() has returned, it returned 0 and the one notification is
\* a success notification whose body contains the identifier.
C6_JobId ==
    \A r \in Runs :
        nSbatch[r] = 1 =>
            /\ submit_result[r].success <=> SchedulerAccepted(r)
            /\ submit_result[r].success =>
                  /\ submit_result[r].job_id # None
                  /\ IsTrimOf(submit_result[r].job_id[1], sbatch[r].stdout)
                  /\ (submit_result[r].job_id[1] # << >> /\ Returned(r)) =>
                        /\ run_ret[r] = <<0>>
                        /\ Len(sent[r]) = 1
                        /\ sent[r][1].success
                        /\ Contains(sent[r][1].body, submit_result[r].job_id[1])

C6_Witness ==
    /\ exit_code[1] = <<0>>
    /\ sbatch[1].stdout = <<"1", "2", "3", "4", "5", "6", "\n">>
    /\ submit_result[1].job_id = Some(<<"1", "2", "3", "4", "5", "6">>)
    /\ Contains(sent[1][1].body, <<"\nJob ID: ", "1", "2", "3", "4", "5", "6">>)

\* the calendar days of year y that come before month m, day d
DaysBefore(y, m, d) ==
    {md \in (1..12) \X (1..31) :
        /\ md[2] <= days_in_month(y, md[1])
        /\ md[1] < m \/ (md[1] = m /\ md[2] < d)}

\* C7: for every date D of a year Y, leap or not, check_forecast_date(D)
\* returns (it does not raise) and is true iff the number of days of Y
\* before D is a multiple of 5; it is true of Jan 1 of every year.
C7_GateRule ==
    gate_out # << >> =>
        /\ ~gate_out[1].raised
        /\ gate_out[1].value <=>
              (Cardinality(DaysBefore(gate_in.year, gate_in.month, gate_in.day)) % 5 = 0)
        /\ (gate_in.month = 1 /\ gate_in.day = 1) => gate_out[1].value

\* Dec 31 of a leap year (offset 365) found eligible
C7_Witness ==
    /\ gate_out # << >>
    /\ gate_in.year = 2024 /\ gate_in.month = 12 /\ gate_in.day = 31
    /\ gate_out[1].value

InWaitLoop(r) == pc[r] \in {"loop", "probe", "sleep"}

\* C8: a probe attempt that exits 0 makes wait_for_files return true at
\* once: the run is out of the loop, that attempt is its last, and the
\* sleeps are those after the earlier attempts only; and wait_for_files
\* returns true in no other way.
C8_ReadyReturnsAtOnce ==
    \A r \in Runs :
        /\ (probe[r].kind = "exit" /\ probe[r].rc = 0) =>
              /\ wait_result[r] = "true"
              /\ ~InWaitLoop(r)
              /\ nSleeps[r] = nProbes[r] - 1
        /\ wait_result[r] = "true" => (probe[r].kind = "exit" /\ probe[r].rc = 0)

C8_Witness ==
    /\ wait_result[1] = "true"
    /\ seen[1] = {"not_ready", "timed_out", "error", "ready"}
    /\ nProbes[1] >= 4
    /\ pc[1] = "exited"

Elapsed(r) == now[r] - start_time[r]

\* C9 (as claimed): wait_for_files returns within max_wait + interval of
\* its first clock read.
C9_WithinMaxWaitPlusInterval ==
    \A r \in Runs :
        wait_result[r] # "none" => Elapsed(r) <= max_wait_time + check_interval

\* C9 (amended): with every probe call taking at most its timeout and every
\* sleep taking interval, the time since wait_for_files' first clock read
\* stays below max_wait + probe timeout + interval, in the loop and at its
\* return.
C9_WithinMaxWaitPlusTimeoutPlusInterval ==
    \A r \in Runs :
        Elapsed(r) < max_wait_time + probe_timeout + check_interval

\* a timeout return later than max_wait + interval, one second short of the bound
C9_Witness ==
    /\ wait_result[1] = "false"
    /\ Elapsed(1) = max_wait_time + probe_timeout + check_interval - 1

\* C10 (as claimed): a probe attempt that failed to start, crashed or timed
\* out is never classified by wait_for_files as "files not ready".
C10_FailureNotConflated ==
    \A r \in Runs :
        (probe[r].kind \in {"timeout", "oserror"} \/ probe[r].crashed)
            => probe_class[r] # "not_ready"

\* the cleanup step of submit_job raised: the unlink was called and the
\* scheduler command was not
CleanupRaised(r) ==
    nUnlinks[r] = 1 /\ pc[r] \notin {"unlink", "sbatch"} /\ nSbatch[r] = 0

\* C11: whether the marker file was there or not when the run started, it
\* is absent whenever the scheduler command is about to run and ever after
\* the command has run, accepted or not; and when the cleanup step raised,
\* the scheduler command is not invoked and submit_job returns a failure.
C11_MarkerGoneBeforeSbatch ==
    \A r \in Runs :
        /\ pc[r] = "sbatch" => marker_file(experiment_name(r)) \notin fs
        /\ nSbatch[r] >= 1 => marker_file(experiment_name(r)) \notin fs
        /\ CleanupRaised(r) =>
              /\ sbatch[r] = NoSbatch
              /\ ~submit_result[r].success
              /\ ret[r] = <<ret_submit_failed>>

\* a marker file left by an earlier run, gone once the job is accepted
C11_Witness ==
    /\ marker_file(experiment_name(1)) \in fs0
    /\ marker_file(experiment_name(1)) \notin fs
    /\ SchedulerAccepted(1)
    /\ pc[1] = "exited"

Missing(found) == IF found THEN 0 ELSE 1

StatusCodes == {0, 1, 10, 11, 100, 101, 110, 111}

Flags == BOOLEAN \X BOOLEAN \X BOOLEAN

\* C12: the exit status of a probe that ran to its end is
\* 1*[source A missing] + 10*[source B missing] + 100*[source C missing];
\* it is 0 iff all three sources were found, it lies in
\* {0,1,10,11,100,101,110,111}, each missing-flag is its own decimal digit
\* of the status, and no two combinations of flags give the same status.
C12_StatusCode ==
    /\ \A r \in Runs :
          (probe[r].kind = "exit" /\ ~probe[r].crashed) =>
              LET f == probe[r].found
                  c == probe[r].rc
              IN  /\ c = Missing(f[1]) + 10 * Missing(f[2]) + 100 * Missing(f[3])
                  /\ (c = 0) <=> (f[1] /\ f[2] /\ f[3])
                  /\ c \in StatusCodes
                  /\ c % 10 = Missing(f[1])
                  /\ (c \div 10) % 10 = Missing(f[2])
                  /\ (c \div 100) % 10 = Missing(f[3])
    /\ \A f \in Flags : \A g \in Flags :
          s2s_check_main(f[1], f[2], f[3]) = s2s_check_main(g[1], g[2], g[3]) => f = g

\* status 110: B and C missing, A found
C12_Witness ==
    /\ probe[1].kind = "exit"
    /\ probe[1].rc = 110
    /\ probe[1].found = <<TRUE, FALSE, FALSE>>
    /\ probe_class[1] = "not_ready"

\* the value run() returns on the path the run took, failed delivery or not
PathCode(r) ==
    IF validated[r] = "pass" /\ wait_result[r] = "true" /\ SchedulerAccepted(r)
    THEN 0 ELSE 1

\* C13: on each of the four paths that send a notification (validation
\* failure, timeout, submission failure, success) the value run() is about
\* to return, the value it returns and the process exit status are those
\* of the path, whether the delivery step raised or not.
C13_DeliveryFailureKeepsExitCode ==
    \A r \in Runs :
        sent[r] # << >> =>
            /\ pc[r] \in {"return", "returned", "exited"}
            /\ ret[r] = <<PathCode(r)>>
            /\ Returned(r) => run_ret[r] = <<PathCode(r)>>
            /\ pc[r] = "exited" => exit_code[r] = <<PathCode(r)>>

\* an accepted submission whose notification could not be delivered: exit 0
C13_Witness ==
    /\ notify_err[1]
    /\ sent[1] # << >>
    /\ sent[1][1].success
    /\ exit_code[1] = <<0>>

\* what a step may do to run r while it is in wait_for_files
C14_Step(r) ==
    \* False is returned only by a loop check that finds max_wait elapsed
    /\ (wait_result[r] # "false" /\ wait_result'[r] = "false") =>
          /\ pc[r] = "loop"
          /\ now[r] - start_time[r] >= max_wait_time
          /\ now'[r] = now[r]
    \* a probe attempt that timed out or raised goes to the sleep
    /\ (pc[r] = "probe" /\ pc'[r] # "probe"
            /\ probe'[r].kind \in {"timeout", "oserror"}) =>
          /\ pc'[r] = "sleep"
          /\ wait_result'[r] = "none"
    \* the sleep takes interval and is followed by the loop check
    /\ (pc[r] = "sleep" /\ pc'[r] # "sleep") =>
          /\ pc'[r] = "loop"
          /\ now'[r] = now[r] + check_interval
    \* the start time is never reset, and nothing is raised
    /\ InWaitLoop(r) =>
          /\ start_time'[r] = start_time[r]
          /\ pc'[r] # "crashed"

\* C14: wait_for_files returns false only at a loop check where the time
\* since its start has reached max_wait; a probe attempt that times out or
\* raises is followed by a sleep of interval and another loop check against
\* the same start time; no probe failure makes it raise or return early.
C14_OnlyTheDeadlineReturnsFalse ==
    [][\A r \in Runs : C14_Step(r)]_vars

\* a timeout after nothing but timed-out and failed probe attempts
C14_Witness ==
    /\ wait_result[1] = "false"
    /\ seen[1] = {"timed_out", "error"}
    /\ nProbes[1] >= 6
    /\ Elapsed(1) >= max_wait_time

\* the experiment directory and the three required files of run r are there
AllRequiredPresent(r) ==
    /\ <<base_path, experiment_name(r)>> \in fs0
    /\ <<script_dir, "forecast_dates.txt">> \in fs0
    /\ <<script_dir, "s2s_check.py">> \in fs0
    /\ <<base_path, experiment_name(r), "gcm_run.j">> \in fs0

\* C15: validation fails iff the experiment directory or one of the three
\* required files is missing; after a validation failure the date has not
\* been looked at, no probe, unlink or scheduler command has run and the
\* file system is as it was, whatever the date argument; the run sends its
\* failure notification and returns 1.
C15_ValidationFirst ==
    \A r \in Runs :
        /\ validated[r] # "none" => ((validated[r] = "fail") <=> ~AllRequiredPresent(r))
        /\ validated[r] = "fail" =>
              /\ eligible[r] = "none"
              /\ nProbes[r] = 0
              /\ nUnlinks[r] = 0
              /\ nSbatch[r] = 0
              /\ wait_result[r] = "none"
              /\ fs = fs0
              /\ ret[r] = <<1>>
              /\ pc[r] # "crashed"
        /\ eligible[r] # "none" => validated[r] = "pass"

\* only the job script missing, an eligible date, a marker file in place
C15_Witness ==
    /\ validated[1] = "fail"
    /\ exit_code[1] = <<1>>
    /\ fs0 = {experiment_dir(TheExperiment), forecast_dates_file, check_script,
              marker_file(TheExperiment)}
    /\ experiment_name(1) = TheExperiment
    /\ check_forecast_date(forecast_date(1)).value
    /\ marker_file(TheExperiment) \in fs

\* C16: within one run the marker file is unlinked at most once and the
\* scheduler command invoked at most once, the scheduler only after the
\* unlink, and both only after validation passed, the date was found
\* eligible and a probe attempt of this run exited 0; no file is ever
\* created; after a readiness timeout the file system, the marker file
\* with it, is as it was before the run.
C16_Sequential ==
    \A r \in Runs :
        /\ nUnlinks[r] <= 1
        /\ nSbatch[r] <= nUnlinks[r]
        /\ (nUnlinks[r] = 1 \/ pc[r] \in {"unlink", "sbatch"}) =>
              /\ validated[r] = "pass"
              /\ eligible[r] = "yes"
              /\ wait_result[r] = "true"
              /\ probe[r].kind = "exit" /\ probe[r].rc = 0
        /\ fs \subseteq fs0
        /\ wait_result[r] = "false" =>
              /\ fs = fs0
              /\ nUnlinks[r] = 0
              /\ nSbatch[r] = 0

\* a readiness timeout that leaves the stale marker file in place
C16_Witness ==
    /\ wait_result[1] = "false"
    /\ pc[1] = "exited"
    /\ marker_file(experiment_name(1)) \in fs0
    /\ marker_file(experiment_name(1)) \in fs
    /\ nProbes[1] > 0

\* C17: nothing excludes one run from the submit phase while another is in
\* it or past it: a run that saw a ready probe can always take its unlink
\* step and then its scheduler step, whatever the other run has done.  The
\* witness is the state the claim names: both runs saw a ready probe, both
\* had their job accepted, and the second unlinked the marker file after
\* the first one's job was accepted.
C17_NoMutualExclusion ==
    \A r \in Runs :
        /\ pc[r] = "probe" => ENABLED wait_probe_from(r, TwoRunProbeOutcomes)
        /\ pc[r] = "unlink" => ENABLED submit_unlink(r)
        /\ pc[r] = "sbatch" => ENABLED submit_sbatch_from(r, TwoRunSbatchOutcomes)

C17_Witness ==
    /\ \A r \in Runs : wait_result[r] = "true" /\ nSbatch[r] = 1 /\ SchedulerAccepted(r)
    /\ late_unlink[2]
    /\ ~late_unlink[1]

Date(y, m, d) == [year |-> y, month |-> m, day |-> d]

\* the calendar day after D
NextDay(D) ==
    IF D.day < days_in_month(D.year, D.month) THEN Date(D.year, D.month, D.day + 1)
    ELSE IF D.month < 12 THEN Date(D.year, D.month + 1, 1)
    ELSE Date(D.year + 1, 1, 1)

RECURSIVE AddDays(_, _)
AddDays(D, k) == IF k = 0 THEN D ELSE AddDays(NextDay(D), k - 1)

\* check_forecast_date applied to D written as YYYY-MM-DD
EligibleOn(D) == check_forecast_date(isoformat(D.year, D.month, D.day)).value

\* C18: for the date D checked, in its year Y: if D is eligible and D+5 is
\* still in Y, then D+5 is the next eligible date; in a non-leap Y, Dec 27
\* (offset 360) is the last eligible date and the next one is Jan 1 of Y+1,
\* 5 days later; in a leap Y, Dec 31 (offset 365) is eligible and so is the
\* next day, Jan 1 of Y+1; and two consecutive days are both eligible only
\* there.
C18_YearBoundary ==
    gate_out # << >> =>
        LET D == Date(gate_in.year, gate_in.month, gate_in.day)
            e == gate_out[1].value
            offset == Cardinality(DaysBefore(D.year, D.month, D.day))
        IN  /\ (e /\ AddDays(D, 5).year = D.year) =>
                  /\ EligibleOn(AddDays(D, 5))
                  /\ \A k \in 1..4 : ~EligibleOn(AddDays(D, k))
            /\ (~is_leap(D.year) /\ D.month = 12 /\ D.day = 27) =>
                  /\ e
                  /\ offset = 360
                  /\ \A k \in 1..4 : ~EligibleOn(AddDays(D, k))
                  /\ AddDays(D, 5) = Date(D.year + 1, 1, 1)
                  /\ EligibleOn(AddDays(D, 5))
            /\ (is_leap(D.year) /\ D.month = 12 /\ D.day = 31) =>
                  /\ e
                  /\ offset = 365
                  /\ NextDay(D) = Date(D.year + 1, 1, 1)
                  /\ EligibleOn(NextDay(D))
            /\ (e /\ EligibleOn(NextDay(D))) =>
                  (is_leap(D.year) /\ D.month = 12 /\ D.day = 31)

\* Dec 31, 2024 and Jan 1, 2025: eligible on two consecutive days
C18_Witness ==
    /\ gate_out # << >>
    /\ gate_in.text = <<"2", "0", "2", "4", "-", "1", "2", "-", "3", "1">>
    /\ gate_out[1].value
    /\ EligibleOn(Date(2025, 1, 1))

CeilDiv(a, b) == (a + b - 1) \div b

\* C19: each attempt that does not return True is followed by a sleep of the
\* whole interval before the next deadline check, so a run calls the check
\* script at most ceil(max_wait / interval) = 8 times; wait_for_files never
\* returns without having called it at least once; and no call starts when
\* the elapsed time at the loop check had reached max_wait.
C19_ProbeCount ==
    /\ CeilDiv(max_wait_time, check_interval) = 8
    /\ \A r \in Runs :
          /\ pc[r] = "loop" =>
                /\ nSleeps[r] = nProbes[r]
                /\ Elapsed(r) >= nProbes[r] * check_interval
          /\ nProbes[r] <= CeilDiv(max_wait_time, check_interval)
          /\ wait_result[r] # "none" => nProbes[r] >= 1
          /\ pc[r] = "probe" => Elapsed(r) < max_wait_time

\* a run that used all eight attempts and then timed out
C19_Witness ==
    /\ nProbes[1] = CeilDiv(max_wait_time, check_interval)
    /\ nSleeps[1] = nProbes[1]
    /\ wait_result[1] = "false"

====
